---- MODULE Spec2Model ----
(***************************************************************************)
(* Model of the Timestamp wrappers of packages null and zero               *)
(* (src/timestamp.go).  A Timestamp embeds sql.NullTime, i.e. the pair     *)
(* (Time, Valid).  JSON and text forms are the decimal count of            *)
(* milliseconds since the Unix epoch, computed in Go's int64 arithmetic.   *)
(*                                                                         *)
(* TLC integers are 32 bits wide, so int64 values and instants are kept as *)
(* sign-magnitude numbers whose magnitude is a little-endian sequence of   *)
(* base-256 limbs; Wrap64 is the two's complement wrap of Go's int64.      *)
(* A []byte is a sequence of one-character strings.                        *)
(***************************************************************************)
EXTENDS Integers, Sequences, FiniteSets, TLC

VARIABLES fam, t, res

vars == <<fam, t, res>>

-----------------------------------------------------------------------------
(* Wide integers                                                           *)

Base == 256

MaxI(x, y) == IF x >= y THEN x ELSE y

Limb(a, i) == IF i <= Len(a) THEN a[i] ELSE 0

RECURSIVE NatNorm(_)
NatNorm(a) ==
    IF a = <<>> THEN <<>>
    ELSE IF a[Len(a)] = 0 THEN NatNorm(SubSeq(a, 1, Len(a) - 1)) ELSE a

RECURSIVE NatCmpFrom(_, _, _)
NatCmpFrom(a, b, i) ==
    IF i = 0 THEN 0
    ELSE IF Limb(a, i) < Limb(b, i) THEN -1
    ELSE IF Limb(a, i) > Limb(b, i) THEN 1
    ELSE NatCmpFrom(a, b, i - 1)

NatCmp(a, b) == NatCmpFrom(a, b, MaxI(Len(a), Len(b)))

RECURSIVE NatAddFrom(_, _, _, _)
NatAddFrom(a, b, i, carry) ==
    IF i > MaxI(Len(a), Len(b))
    THEN (IF carry = 0 THEN <<>> ELSE <<carry>>)
    ELSE LET s == Limb(a, i) + Limb(b, i) + carry
         IN  <<s % Base>> \o NatAddFrom(a, b, i + 1, s \div Base)

NatAdd(a, b) == NatNorm(NatAddFrom(a, b, 1, 0))

RECURSIVE NatSubFrom(_, _, _, _)
NatSubFrom(a, b, i, borrow) ==
    IF i > Len(a) THEN <<>>
    ELSE LET d == Limb(a, i) - Limb(b, i) - borrow
         IN  IF d < 0 THEN <<d + Base>> \o NatSubFrom(a, b, i + 1, 1)
                      ELSE <<d>> \o NatSubFrom(a, b, i + 1, 0)

\* a - b for a >= b
NatSub(a, b) == NatNorm(NatSubFrom(a, b, 1, 0))

RECURSIVE NatMulFrom(_, _, _, _)
NatMulFrom(a, k, i, carry) ==
    IF i > Len(a)
    THEN (IF carry = 0 THEN <<>>
          ELSE <<carry % Base>> \o NatMulFrom(a, k, i, carry \div Base))
    ELSE LET p == a[i] * k + carry
         IN  <<p % Base>> \o NatMulFrom(a, k, i + 1, p \div Base)

\* a * k for a small factor k (k <= 10^6)
NatMulSmall(a, k) == NatNorm(NatMulFrom(a, k, 1, 0))

RECURSIVE NatDivFrom(_, _, _, _)
NatDivFrom(a, k, i, rem) ==
    IF i = 0 THEN [q |-> <<>>, r |-> rem]
    ELSE LET cur  == rem * Base + a[i]
             rest == NatDivFrom(a, k, i - 1, cur % k)
         IN  [q |-> rest.q \o <<cur \div k>>, r |-> rest.r]

\* quotient and remainder of a by a small divisor k (k <= 10^6)
NatDivSmall(a, k) ==
    LET d == NatDivFrom(a, k, Len(a), 0) IN [q |-> NatNorm(d.q), r |-> d.r]

\* acc * 10^Len(ds) + the number written ds; the test on next makes TLC
\* compute each partial sum before it descends
RECURSIVE NatFromDigits(_, _)
NatFromDigits(ds, acc) ==
    IF ds = <<>> THEN acc
    ELSE LET next == NatAdd(NatMulSmall(acc, 10), NatNorm(<<Head(ds)>>))
         IN  IF Len(next) >= 0 THEN NatFromDigits(Tail(ds), next) ELSE <<>>

RECURSIVE NatToDigits(_)
NatToDigits(a) ==
    IF a = <<>> THEN <<>>
    ELSE LET d == NatDivSmall(a, 10) IN NatToDigits(d.q) \o <<d.r>>

\* a signed integer; zero is never negative
MkInt(neg, mag) == [neg |-> neg /\ mag # <<>>, mag |-> mag]

IntZero == MkInt(FALSE, <<>>)

\* the integer written with the decimal digits ds
Dec(ds) == MkInt(FALSE, NatFromDigits(ds, <<>>))

Neg(x) == MkInt(~x.neg, x.mag)

IntAdd(x, y) ==
    IF x.neg = y.neg THEN MkInt(x.neg, NatAdd(x.mag, y.mag))
    ELSE IF NatCmp(x.mag, y.mag) >= 0 THEN MkInt(x.neg, NatSub(x.mag, y.mag))
    ELSE MkInt(y.neg, NatSub(y.mag, x.mag))

IntMulSmall(x, k) == MkInt(x.neg, NatMulSmall(x.mag, k))

\* Go's integer division: truncation toward zero
IntQuo(x, k) == MkInt(x.neg, NatDivSmall(x.mag, k).q)

\* division rounding toward minus infinity
IntFloorDiv(x, k) ==
    LET d == NatDivSmall(x.mag, k)
    IN  IF x.neg /\ d.r # 0 THEN MkInt(TRUE, NatAdd(d.q, <<1>>))
        ELSE MkInt(x.neg, d.q)

Two64 == <<0, 0, 0, 0, 0, 0, 0, 0, 1>>

Two63 == <<0, 0, 0, 0, 0, 0, 0, 128>>

Low64(a) == NatNorm(SubSeq(a, 1, IF Len(a) < 8 THEN Len(a) ELSE 8))

\* the value of x as Go's int64 holds it (two's complement, modulo 2^64)
Wrap64(x) ==
    LET r == Low64(x.mag)
        u == IF x.neg /\ r # <<>> THEN NatSub(Two64, r) ELSE r
    IN  IF NatCmp(u, Two63) >= 0 THEN MkInt(TRUE, NatSub(Two64, u))
        ELSE MkInt(FALSE, u)

\* x lies in [-2^63, 2^63 - 1]
InInt64(x) ==
    IF x.neg THEN NatCmp(x.mag, Two63) <= 0 ELSE NatCmp(x.mag, Two63) < 0

-----------------------------------------------------------------------------
(* Bytes and decimal text                                                  *)

DigitChars == <<"0", "1", "2", "3", "4", "5", "6", "7", "8", "9">>

IsDigit(c) == \E i \in 1..10 : DigitChars[i] = c

DigitVal(c) == (CHOOSE i \in 1..10 : DigitChars[i] = c) - 1

DigitsOf(s) == [i \in 1..Len(s) |-> DigitVal(s[i])]

AllDigits(s) == \A i \in 1..Len(s) : IsDigit(s[i])

\* strconv.FormatInt(x, 10)
FormatInt(x) ==
    LET ds  == NatToDigits(x.mag)
        txt == IF ds = <<>> THEN <<"0">>
               ELSE [i \in 1..Len(ds) |-> DigitChars[ds[i] + 1]]
    IN  IF x.neg THEN <<"-">> \o txt ELSE txt

\* strconv.ParseInt(s, 10, 64)
ParseInt(s) ==
    LET signed == s # <<>> /\ s[1] \in {"+", "-"}
        body   == IF signed THEN Tail(s) ELSE s
        val    == MkInt(signed /\ s[1] = "-", NatFromDigits(DigitsOf(body), <<>>))
    IN  IF body = <<>> \/ ~AllDigits(body) THEN [err |-> "syntax", val |-> IntZero]
        ELSE IF ~InInt64(val) THEN [err |-> "range", val |-> IntZero]
        ELSE [err |-> "nil", val |-> val]

nullBytes == <<"n", "u", "l", "l">>

\* the white space that encoding/json skips around a value
IsSpace(c) == c \in {" ", "\t", "\n", "\r"}

\* d[i], or "" past either end of d
At(d, i) == IF i >= 1 /\ i <= Len(d) THEN d[i] ELSE ""

RECURSIVE SkipSpace(_, _)
SkipSpace(d, i) == IF IsSpace(At(d, i)) THEN SkipSpace(d, i + 1) ELSE i

RECURSIVE SkipDigits(_, _)
SkipDigits(d, i) == IF IsDigit(At(d, i)) THEN SkipDigits(d, i + 1) ELSE i

HasWord(d, i, w) == i + Len(w) - 1 <= Len(d) /\ SubSeq(d, i, i + Len(w) - 1) = w

HexChars == <<"0", "1", "2", "3", "4", "5", "6", "7", "8", "9",
              "a", "b", "c", "d", "e", "f">>

UpperHexChars == <<"0", "1", "2", "3", "4", "5", "6", "7", "8", "9",
                   "A", "B", "C", "D", "E", "F">>

IsHex(c) == \E i \in 1..16 : HexChars[i] = c \/ UpperHexChars[i] = c

HexVal(c) == (CHOOSE i \in 1..16 : HexChars[i] = c \/ UpperHexChars[i] = c) - 1

\* the characters U+0020 .. U+007E; the grave accent, which a string of this
\* notation cannot hold, is written as its escape
Ascii == <<" ", "!", "\"", "#", "$", "%", "&", "'", "(", ")", "*", "+", ",", "-",
           ".", "/", "0", "1", "2", "3", "4", "5", "6", "7", "8", "9", ":", ";",
           "<", "=", ">", "?", "@", "A", "B", "C", "D", "E", "F", "G", "H", "I",
           "J", "K", "L", "M", "N", "O", "P", "Q", "R", "S", "T", "U", "V", "W",
           "X", "Y", "Z", "[", "\\", "]", "^", "_", "\\u0060", "a", "b", "c", "d",
           "e", "f", "g", "h", "i", "j", "k", "l", "m", "n", "o", "p", "q", "r", "s",
           "t", "u", "v", "w", "x", "y", "z", "{", "|", "}", "~">>

\* the character with code point n; a code point outside the table is written
\* as its \u escape, which is no digit and no sign
CharOf(n) ==
    IF n >= 32 /\ n <= 126 THEN Ascii[n - 31]
    ELSE IF n = 9 THEN "\t"
    ELSE IF n = 10 THEN "\n"
    ELSE IF n = 12 THEN "\f"
    ELSE IF n = 13 THEN "\r"
    ELSE "\\u" \o HexChars[(n \div 4096) + 1] \o HexChars[((n \div 256) % 16) + 1]
               \o HexChars[((n \div 16) % 16) + 1] \o HexChars[(n % 16) + 1]

\* the code point of the escape \uXXXX whose backslash is at d[j]
EscapeCode(d, j) ==
    ((HexVal(d[j + 2]) * 16 + HexVal(d[j + 3])) * 16 + HexVal(d[j + 4])) * 16
        + HexVal(d[j + 5])

\* the character that the two-byte escape \c denotes
EscapeChar(c) ==
    CASE c = "b" -> CharOf(8)
      [] c = "f" -> "\f"
      [] c = "n" -> "\n"
      [] c = "r" -> "\r"
      [] c = "t" -> "\t"
      [] OTHER -> c

\* the index after the closing quote of the string whose body starts at j;
\* 0 when the string is malformed
RECURSIVE ScanString(_, _)
ScanString(d, j) ==
    IF j > Len(d) THEN 0
    ELSE IF d[j] = "\"" THEN j + 1
    ELSE IF d[j] = "\\"
         THEN IF At(d, j + 1) \in {"\"", "\\", "/", "b", "f", "n", "r", "t"}
              THEN ScanString(d, j + 2)
              ELSE IF At(d, j + 1) = "u" /\ \A k \in 2..5 : IsHex(At(d, j + k))
              THEN ScanString(d, j + 6)
              ELSE 0
    ELSE IF d[j] \in {"\t", "\n", "\f", "\r"} THEN 0
    ELSE ScanString(d, j + 1)

\* the index after the integer part that starts at d[a]; a when there is none
NumberInt(d, a) == IF At(d, a) = "0" THEN a + 1 ELSE SkipDigits(d, a)

\* the index after the digits that must start at d[s]; 0 when there is none
NumberDigits(d, s) ==
    LET e == SkipDigits(d, s) IN IF e = s THEN 0 ELSE e

\* the index after the optional fraction at d[b]; 0 when it is malformed
NumberFrac(d, b) == IF At(d, b) = "." THEN NumberDigits(d, b + 1) ELSE b

\* the index after the optional exponent at d[c]; 0 when it or what precedes
\* it is malformed
NumberExp(d, c) ==
    IF c = 0 THEN 0
    ELSE IF At(d, c) \in {"e", "E"}
    THEN NumberDigits(d, IF At(d, c + 1) \in {"+", "-"} THEN c + 2 ELSE c + 1)
    ELSE c

\* the number whose integer part ends before d[b]
NumberRest(d, b) ==
    LET e == NumberExp(d, NumberFrac(d, b)) IN [end |-> e, int |-> e = b]

\* the number whose digits start at d[a]
NumberFrom(d, a) ==
    LET b == NumberInt(d, a)
    IN  IF b = a THEN [end |-> 0, int |-> FALSE] ELSE NumberRest(d, b)

\* the number that starts at d[i]: the index after it (0 when malformed) and
\* whether it has neither fraction nor exponent
ScanNumber(d, i) == NumberFrom(d, IF At(d, i) = "-" THEN i + 1 ELSE i)

RECURSIVE ScanValue(_, _)
RECURSIVE ScanElements(_, _)
RECURSIVE ScanMembers(_, _)

\* an array after the white space that follows an element: j is at ] or ,
ElementSep(d, j) ==
    IF At(d, j) = "]" THEN j + 1
    ELSE IF At(d, j) = "," THEN ScanElements(d, SkipSpace(d, j + 1))
    ELSE 0

\* the rest of an array, from the element that starts at d[i]
ScanElements(d, i) ==
    LET v == ScanValue(d, i) IN IF v = 0 THEN 0 ELSE ElementSep(d, SkipSpace(d, v))

\* an object after the white space that follows a member: j is at } or ,
MemberSep(d, j) ==
    IF At(d, j) = "}" THEN j + 1
    ELSE IF At(d, j) = "," THEN ScanMembers(d, SkipSpace(d, j + 1))
    ELSE 0

\* an object after a member's value, which ends before d[v]
MemberEnd(d, v) == IF v = 0 THEN 0 ELSE MemberSep(d, SkipSpace(d, v))

\* an object after the white space that follows a key: c is at the colon
MemberColon(d, c) ==
    IF At(d, c) = ":" THEN MemberEnd(d, ScanValue(d, SkipSpace(d, c + 1))) ELSE 0

\* an object after a key, which ends before d[k]
MemberKey(d, k) == IF k = 0 THEN 0 ELSE MemberColon(d, SkipSpace(d, k))

\* the rest of an object, from the key that starts at d[i]
ScanMembers(d, i) ==
    IF At(d, i) = "\"" THEN MemberKey(d, ScanString(d, i + 1)) ELSE 0

\* an object or array after its opening bracket and white space
ScanOpen(d, j, close) ==
    IF At(d, j) = close THEN j + 1
    ELSE IF close = "}" THEN ScanMembers(d, j)
    ELSE ScanElements(d, j)

\* the index after the JSON value that starts at d[i]; 0 when there is none
ScanValue(d, i) ==
    LET c == At(d, i)
    IN  IF c = "{" THEN ScanOpen(d, SkipSpace(d, i + 1), "}")
        ELSE IF c = "[" THEN ScanOpen(d, SkipSpace(d, i + 1), "]")
        ELSE IF c = "\"" THEN ScanString(d, i + 1)
        ELSE IF c = "-" \/ IsDigit(c) THEN ScanNumber(d, i).end
        ELSE IF HasWord(d, i, <<"t", "r", "u", "e">>) THEN i + 4
        ELSE IF HasWord(d, i, <<"f", "a", "l", "s", "e">>) THEN i + 5
        ELSE IF HasWord(d, i, <<"n", "u", "l", "l">>) THEN i + 4
        ELSE 0

\* d[s .. e - 1] when the value ends before d[e] and only white space follows
TrimTo(d, s, e) ==
    IF e # 0 /\ SkipSpace(d, e) = Len(d) + 1 THEN SubSeq(d, s, e - 1) ELSE <<>>

\* the value that starts at d[s]
TrimFrom(d, s) == TrimTo(d, s, ScanValue(d, s))

\* data without the white space around its value; <<>> when data is not one
\* JSON value between optional white space
JSONTrim(data) == TrimFrom(data, SkipSpace(data, 1))

\* the kind of the JSON value tok, which JSONTrim gave
KindOf(tok) ==
    IF tok = <<>> THEN "invalid"
    ELSE IF tok[1] = "{" THEN "object"
    ELSE IF tok[1] = "[" THEN "array"
    ELSE IF tok[1] = "\"" THEN "string"
    ELSE IF tok[1] \in {"t", "f"} THEN "bool"
    ELSE IF tok[1] = "n" THEN "null"
    ELSE IF ScanNumber(tok, 1).int THEN "integer"
    ELSE "float"

\* the kind of JSON value that data holds
JSONKind(data) == KindOf(JSONTrim(data))

\* the characters of the string literal whose body starts at d[j].  The two
\* escapes of a surrogate pair are kept as two characters.
RECURSIVE Unquote(_, _)
Unquote(d, j) ==
    IF d[j] = "\"" THEN <<>>
    ELSE IF d[j] = "\\"
         THEN IF d[j + 1] = "u"
              THEN <<CharOf(EscapeCode(d, j))>> \o Unquote(d, j + 6)
              ELSE <<EscapeChar(d[j + 1])>> \o Unquote(d, j + 2)
    ELSE <<d[j]>> \o Unquote(d, j + 1)

-----------------------------------------------------------------------------
(* time.Time: the instant as nanoseconds since the Unix epoch, and the     *)
(* location.  A nil location pointer means UTC (Time.UTC() stores nil).    *)
(* The times of the model carry no monotonic clock reading.                *)

NanosPerMilli == 1000000

MkTime(ns, loc) == [ns |-> ns, loc |-> loc]

\* time.Time{}: January 1, year 1, 00:00:00 UTC, 62135596800 s before the epoch
ZeroTimeValue ==
    MkTime(IntMulSmall(IntMulSmall(Neg(Dec(<<6, 2, 1, 3, 5, 5, 9, 6, 8, 0, 0>>)),
                                   1000), NanosPerMilli), "UTC")

\* time.UnixMilli(0).UTC()
EpochUTC == MkTime(IntZero, "UTC")

\* Time.IsZero
TimeIsZero(tm) == tm.ns = ZeroTimeValue.ns

\* Time.Equal: the same instant, whatever the location
TimeEqual(a, b) == a.ns = b.ns

\* a == b on time.Time values: the same representation
TimeSame(a, b) == a.ns = b.ns /\ a.loc = b.loc

\* Time.Add(d) for a Duration d (an int64 count of nanoseconds)
TimeAdd(tm, d) == MkTime(IntAdd(tm.ns, d), tm.loc)

\* Time.UnixNano: wraps outside the years 1678..2262
UnixNano(tm) == Wrap64(tm.ns)

\* Time.UnixMilli: unixSec*1e3 + nsec/1e6 with 0 <= nsec < 1e9
UnixMilli(tm) == Wrap64(IntFloorDiv(tm.ns, NanosPerMilli))

\* time.UnixMilli(0).UTC().Add(time.Duration(ms * int64(time.Millisecond)))
FromMillis(ms) == TimeAdd(EpochUTC, Wrap64(IntMulSmall(ms, NanosPerMilli)))

-----------------------------------------------------------------------------
(* Int64 of package null and of package zero                               *)

NewInt64(i, valid) == [Int64 |-> i, Valid |-> valid]

Int64From(i) == NewInt64(i, TRUE)

ZeroInt64From(i) == NewInt64(i, i # IntZero)

\* json.Unmarshal of the value tok into an int64 that holds cur, with the
\* quoted numeric string accepted
DecodeToken(cur, tok, kind) ==
    CASE kind = "integer" ->
           LET p == ParseInt(tok)
           IN  [err |-> IF p.err = "nil" THEN "nil" ELSE "overflow", val |-> p.val]
      [] kind = "string" ->
           LET p == ParseInt(Unquote(tok, 2))
           IN  [err |-> IF p.err = "nil" THEN "nil" ELSE "parse", val |-> p.val]
      [] kind = "null" -> [err |-> "nil", val |-> cur]
      [] kind = "invalid" -> [err |-> "syntax", val |-> IntZero]
      [] OTHER -> [err |-> "type", val |-> IntZero]

DecodeValue(cur, tok) == DecodeToken(cur, tok, KindOf(tok))

\* json.Unmarshal(data, &i.Int64): cur is the value that i.Int64 holds before
DecodeInt64(cur, data) == DecodeValue(cur, JSONTrim(data))

Int64UnmarshalJSON(n, data) ==
    IF data = nullBytes THEN [n |-> [n EXCEPT !.Valid = FALSE], err |-> "nil"]
    ELSE LET d == DecodeInt64(n.Int64, data)
         IN  IF d.err # "nil" THEN [n |-> n, err |-> d.err]
             ELSE [n |-> NewInt64(d.val, TRUE), err |-> "nil"]

ZeroInt64UnmarshalJSON(n, data) ==
    IF data = nullBytes THEN [n |-> [n EXCEPT !.Valid = FALSE], err |-> "nil"]
    ELSE LET d == DecodeInt64(n.Int64, data)
         IN  IF d.err # "nil" THEN [n |-> n, err |-> d.err]
             ELSE [n |-> NewInt64(d.val, d.val # IntZero), err |-> "nil"]

Int64UnmarshalText(n, text) ==
    IF text = <<>> \/ text = nullBytes
    THEN [n |-> [n EXCEPT !.Valid = FALSE], err |-> "nil"]
    ELSE LET p == ParseInt(text)
         IN  IF p.err # "nil" THEN [n |-> n, err |-> "parse"]
             ELSE [n |-> NewInt64(p.val, TRUE), err |-> "nil"]

ZeroInt64UnmarshalText(n, text) ==
    IF text = <<>> \/ text = nullBytes
    THEN [n |-> [n EXCEPT !.Valid = FALSE], err |-> "nil"]
    ELSE LET p == ParseInt(text)
         IN  IF p.err # "nil" THEN [n |-> n, err |-> "parse"]
             ELSE [n |-> NewInt64(p.val, p.val # IntZero), err |-> "nil"]

Int64MarshalText(n) == IF ~n.Valid THEN <<>> ELSE FormatInt(n.Int64)

ZeroInt64MarshalText(n) == FormatInt(IF ~n.Valid THEN IntZero ELSE n.Int64)

-----------------------------------------------------------------------------
(* driver.Value and *time.Time                                             *)

NilValue == [kind |-> "nil"]

TimeValue(tm) == [kind |-> "time", v |-> tm]

Int64Value(i) == [kind |-> "int64", v |-> i]

NilPtr == [isNil |-> TRUE]

\* a reference to the cell named cell, which holds tm
PtrTo(cell, tm) == [isNil |-> FALSE, cell |-> cell, pointee |-> tm]

\* sql.NullTime.Scan: Valid is set before the conversion is attempted
NullTimeScan(ts, value) ==
    IF value.kind = "nil"
    THEN [t |-> [Time |-> ZeroTimeValue, Valid |-> FALSE], err |-> "nil"]
    ELSE IF value.kind = "time"
    THEN [t |-> [Time |-> value.v, Valid |-> TRUE], err |-> "nil"]
    ELSE [t |-> [ts EXCEPT !.Valid = TRUE], err |-> "scan"]

-----------------------------------------------------------------------------
(* package null: Timestamp                                                 *)

\* variant: the millisecond count of the JSON form is handed to the driver
Value_Millis(ts) ==
    IF ~ts.Valid THEN NilValue ELSE Int64Value(UnixMilli(ts.Time))

Value(ts) == IF ~ts.Valid THEN NilValue ELSE TimeValue(ts.Time)

NewTimestamp(tm, valid) == [Time |-> tm, Valid |-> valid]

TimestampFrom(tm) == NewTimestamp(tm, TRUE)

\* p is NilPtr or a reference to a time
TimestampFromPtr(p) ==
    IF p.isNil THEN NewTimestamp(ZeroTimeValue, FALSE)
    ELSE NewTimestamp(p.pointee, TRUE)

ValueOrZero(ts) == IF ~ts.Valid THEN ZeroTimeValue ELSE ts.Time

MarshalJSON(ts) ==
    IF ~ts.Valid THEN nullBytes
    ELSE FormatInt(IntQuo(UnixNano(ts.Time), NanosPerMilli))

\* variant: the null token also resets Time to time.Time{}
UnmarshalJSON_NullResets(ts, data) ==
    IF data = nullBytes
    THEN [t |-> NewTimestamp(ZeroTimeValue, FALSE), err |-> "nil"]
    ELSE LET r == Int64UnmarshalJSON(NewInt64(IntZero, FALSE), data)
         IN  IF r.err # "nil" THEN [t |-> ts, err |-> r.err]
             ELSE [t |-> [Time |-> FromMillis(r.n.Int64), Valid |-> TRUE],
                   err |-> "nil"]

\* variant: Valid is set before the literal is parsed
UnmarshalJSON_ValidFirst(ts, data) ==
    IF data = nullBytes THEN [t |-> [ts EXCEPT !.Valid = FALSE], err |-> "nil"]
    ELSE LET r == Int64UnmarshalJSON(NewInt64(IntZero, FALSE), data)
         IN  IF r.err # "nil" THEN [t |-> [ts EXCEPT !.Valid = TRUE], err |-> r.err]
             ELSE [t |-> [Time |-> FromMillis(r.n.Int64), Valid |-> TRUE],
                   err |-> "nil"]

UnmarshalJSON(ts, data) ==
    IF data = nullBytes THEN [t |-> [ts EXCEPT !.Valid = FALSE], err |-> "nil"]
    ELSE LET r == Int64UnmarshalJSON(NewInt64(IntZero, FALSE), data)
         IN  IF r.err # "nil" THEN [t |-> ts, err |-> r.err]
             ELSE [t |-> [Time |-> FromMillis(r.n.Int64), Valid |-> TRUE],
                   err |-> "nil"]

MarshalText(ts) ==
    IF ~ts.Valid THEN <<>>
    ELSE Int64MarshalText(Int64From(UnixMilli(ts.Time)))

\* variant: the receiver is reset before the text is parsed
UnmarshalText_ResetFirst(ts, text) ==
    LET r == Int64UnmarshalText(Int64From(IntZero), text)
    IN  IF r.err # "nil" THEN [t |-> NewTimestamp(ZeroTimeValue, FALSE), err |-> "text"]
        ELSE IF ~r.n.Valid THEN [t |-> ts, err |-> "nil"]
        ELSE [t |-> [Time |-> FromMillis(r.n.Int64), Valid |-> TRUE], err |-> "nil"]

UnmarshalText(ts, text) ==
    LET r == Int64UnmarshalText(Int64From(IntZero), text)
    IN  IF r.err # "nil" THEN [t |-> ts, err |-> "text"]
        ELSE IF ~r.n.Valid THEN [t |-> ts, err |-> "nil"]
        ELSE [t |-> [Time |-> FromMillis(r.n.Int64), Valid |-> TRUE], err |-> "nil"]

SetValid(ts, v) == [Time |-> v, Valid |-> TRUE]

\* variant: pointer receiver, the reference is to the receiver's own field
Ptr_Receiver(ts) == IF ~ts.Valid THEN NilPtr ELSE PtrTo("recv", ts.Time)

\* value receiver: the reference is to the Time field of the callee's copy
Ptr(ts) == IF ~ts.Valid THEN NilPtr ELSE PtrTo("copy", ts.Time)

IsZero(ts) == ~ts.Valid

\* variant: the times are compared even when both are invalid
Equal_AlwaysTime(ts, other) ==
    ts.Valid = other.Valid /\ TimeEqual(ts.Time, other.Time)

Equal(ts, other) ==
    ts.Valid = other.Valid /\ (~ts.Valid \/ TimeEqual(ts.Time, other.Time))

\* variant: Time.Equal in place of ==
ExactEqual_Instant(ts, other) ==
    ts.Valid = other.Valid /\ (~ts.Valid \/ TimeEqual(ts.Time, other.Time))

ExactEqual(ts, other) ==
    ts.Valid = other.Valid /\ (~ts.Valid \/ TimeSame(ts.Time, other.Time))

\* Scan is promoted from the embedded sql.NullTime
Scan(ts, value) == NullTimeScan(ts, value)

-----------------------------------------------------------------------------
(* package zero: Timestamp                                                 *)

ZeroValue(ts) == IF ~ts.Valid THEN NilValue ELSE TimeValue(ts.Time)

ZeroNewTimestamp(tm, valid) == [Time |-> tm, Valid |-> valid]

ZeroTimestampFrom(tm) == ZeroNewTimestamp(tm, ~TimeIsZero(tm))

ZeroTimestampFromPtr(p) ==
    IF p.isNil THEN ZeroNewTimestamp(ZeroTimeValue, FALSE)
    ELSE ZeroTimestampFrom(p.pointee)

ZeroValueOrZero(ts) == IF ~ts.Valid THEN ZeroTimeValue ELSE ts.Time

ZeroMarshalJSON(ts) ==
    IF ~ts.Valid THEN <<"0">>
    ELSE FormatInt(IntQuo(UnixNano(ts.Time), NanosPerMilli))

\* variant: the literal 0 is handled like null and ""
ZeroUnmarshalJSON_ZeroLiteral(ts, data) ==
    IF data = nullBytes \/ data = <<"\"", "\"">> \/ data = <<"0">>
    THEN [t |-> [ts EXCEPT !.Valid = FALSE], err |-> "nil"]
    ELSE LET r == ZeroInt64UnmarshalJSON(NewInt64(IntZero, FALSE), data)
         IN  IF r.err # "nil" THEN [t |-> ts, err |-> r.err]
             ELSE LET tm == FromMillis(r.n.Int64)
                  IN  [t |-> [Time |-> tm, Valid |-> ~TimeIsZero(tm)], err |-> "nil"]

ZeroUnmarshalJSON(ts, data) ==
    IF data = nullBytes \/ data = <<"\"", "\"">>
    THEN [t |-> [ts EXCEPT !.Valid = FALSE], err |-> "nil"]
    ELSE LET r == ZeroInt64UnmarshalJSON(NewInt64(IntZero, FALSE), data)
         IN  IF r.err # "nil" THEN [t |-> ts, err |-> r.err]
             ELSE LET tm == FromMillis(r.n.Int64)
                  IN  [t |-> [Time |-> tm, Valid |-> ~TimeIsZero(tm)], err |-> "nil"]

ZeroMarshalText(ts) ==
    IF ~ts.Valid THEN <<"0">>
    ELSE ZeroInt64MarshalText(ZeroInt64From(UnixMilli(ts.Time)))

ZeroUnmarshalText(ts, text) ==
    LET r == ZeroInt64UnmarshalText(ZeroInt64From(IntZero), text)
    IN  IF r.err # "nil" THEN [t |-> ts, err |-> "text"]
        ELSE IF ~r.n.Valid THEN [t |-> ts, err |-> "nil"]
        ELSE [t |-> [Time |-> FromMillis(r.n.Int64), Valid |-> TRUE], err |-> "nil"]

ZeroSetValid(ts, v) == [Time |-> v, Valid |-> TRUE]

ZeroPtr(ts) == IF ~ts.Valid THEN NilPtr ELSE PtrTo("copy", ts.Time)

ZeroIsZero(ts) == ~ts.Valid \/ TimeIsZero(ts.Time)

\* variant: the comparison of package null
ZeroEqual_NullStyle(ts, other) ==
    ts.Valid = other.Valid /\ (~ts.Valid \/ TimeEqual(ts.Time, other.Time))

ZeroEqual(ts, other) == TimeEqual(ZeroValueOrZero(ts), ZeroValueOrZero(other))

\* variant: the comparison of package null
ZeroExactEqual_NullStyle(ts, other) ==
    ts.Valid = other.Valid /\ (~ts.Valid \/ TimeSame(ts.Time, other.Time))

ZeroExactEqual(ts, other) == TimeSame(ZeroValueOrZero(ts), ZeroValueOrZero(other))

ZeroScan(ts, value) == NullTimeScan(ts, value)

-----------------------------------------------------------------------------
(* Inputs                                                                  *)

\* 2012-12-21T21:21:21Z, the instant of the literal 1356124881000
timeValue1 == MkTime(IntMulSmall(Dec(<<1, 3, 5, 6, 1, 2, 4, 8, 8, 1, 0, 0, 0>>),
                                 NanosPerMilli), "UTC")

\* the instant of timeValue1 written in another zone (22:21:21+01:00)
timeValue2 == MkTime(timeValue1.ns, "CET")

\* 2018-08-19T01:02:03Z
timeValue3 == MkTime(IntMulSmall(Dec(<<1, 5, 3, 4, 6, 4, 0, 5, 2, 3, 0, 0, 0>>),
                                 NanosPerMilli), "UTC")

\* 3 ms before the epoch
timeBeforeEpoch == MkTime(Neg(Dec(<<3, 0, 0, 0, 0, 0, 0>>)), "UTC")

\* 1.5 ms before the epoch
timeBeforeEpochSubMilli == MkTime(Neg(Dec(<<1, 5, 0, 0, 0, 0, 0>>)), "UTC")

\* 2.500001 ms after the epoch
timeSubMilli == MkTime(Dec(<<2, 5, 0, 0, 0, 0, 1>>), "UTC")

\* 2262-04-11T23:47:16.855Z: 9223372036855 ms after the epoch, the first whole
\* millisecond whose nanosecond count exceeds 2^63 - 1
timeFar == MkTime(IntMulSmall(Dec(<<9, 2, 2, 3, 3, 7, 2, 0, 3, 6, 8, 5, 5>>),
                              NanosPerMilli), "UTC")

\* time.Time{}.In(loc): the zero instant carrying a location other than UTC
timeZeroCET == MkTime(ZeroTimeValue.ns, "CET")

Times == {ZeroTimeValue, EpochUTC, timeValue1, timeValue2, timeValue3,
          timeBeforeEpoch, timeBeforeEpochSubMilli, timeSubMilli, timeFar,
          timeZeroCET}

timestampJSON == <<"1", "3", "5", "6", "1", "2", "4", "8", "8", "1", "0", "0", "0">>

invalidJSON == <<":", ")">>

farJSON == <<"9", "2", "2", "3", "3", "7", "2", "0", "3", "6", "8", "5", "5">>

\* 2^63, one beyond the largest int64
overflowJSON == <<"9", "2", "2", "3", "3", "7", "2", "0", "3", "6", "8", "5", "4",
                  "7", "7", "5", "8", "0", "8">>

\* {"hello": "world"}
badObject == <<"{", "\"", "h", "e", "l", "l", "o", "\"", ":", " ",
               "\"", "w", "o", "r", "l", "d", "\"", "}">>

\* the literal 5 after a space
spacedJSON == <<" ", "5">>

\* the string "\u0035", whose one character is the digit 5
escapedJSON == <<"\"", "\\", "u", "0", "0", "3", "5", "\"">>

\* the null token after a space, which is not the four bytes of nullBytes
spacedNull == <<" ">> \o nullBytes

JSONInputs == {nullBytes, <<"\"", "\"">>, <<"0">>, <<"5">>, <<"-", "3">>,
               timestampJSON, <<"\"", "5", "\"">>, <<"t", "r", "u", "e">>,
               <<"{", "}">>, <<"1", ".", "5">>, invalidJSON, farJSON, overflowJSON,
               badObject, spacedJSON, escapedJSON, spacedNull,
               <<"1", "e", "5">>, <<"[", "1", "]">>}

TextInputs == {<<>>, nullBytes, <<"0">>, <<"5">>, <<"-", "3">>, timestampJSON,
               <<"h", "e", "l", "l", "o", " ", "w", "o", "r", "l", "d">>,
               farJSON, overflowJSON}

\* nil, the int64 42, and the times
ScanInputs == {NilValue, Int64Value(Dec(<<4, 2>>))} \cup {TimeValue(tm) : tm \in Times}

PtrInputs == {NilPtr} \cup {PtrTo("arg", tm) : tm \in Times}

\* the operands of Equal and ExactEqual
Others == {NewTimestamp(tm, valid) : tm \in Times, valid \in BOOLEAN}

PtrWrites == {ZeroTimeValue, timeValue3}

\* var ti Timestamp
Fresh == NewTimestamp(ZeroTimeValue, FALSE)

-----------------------------------------------------------------------------
(* State: fam is the package of the wrapper t; res records the last call:  *)
(* its name, the receiver before the call, the argument, the error and the *)
(* result.                                                                 *)

R(op, pre, arg, err, out) ==
    [op |-> op, pre |-> pre, arg |-> arg, err |-> err, out |-> out]

Init ==
    /\ fam \in {"null", "zero"}
    /\ t = Fresh
    /\ res = R("init", Fresh, "-", "nil", "-")

\* a call that replaces or mutates the wrapper
Mutate(op, arg, r) ==
    /\ t' = r.t
    /\ res' = R(op, t, arg, r.err, r.t)
    /\ UNCHANGED fam

\* a call on a value receiver
Query(op, arg, out) ==
    /\ res' = R(op, t, arg, "nil", out)
    /\ UNCHANGED <<fam, t>>

\* *p = v through the reference that the last Ptr call returned
WriteThrough(v) ==
    /\ res.op = "Ptr"
    /\ ~res.out.isNil
    /\ t' = IF res.out.cell = "recv" THEN [t EXCEPT !.Time = v] ELSE t
    /\ res' = R("WriteThrough", t, v, "nil", PtrTo(res.out.cell, v))
    /\ UNCHANGED fam

\* package null
DoTimestampFrom(tm) ==
    fam = "null" /\ Mutate("TimestampFrom", tm, [t |-> TimestampFrom(tm), err |-> "nil"])

DoTimestampFromPtr(p) ==
    fam = "null" /\ Mutate("TimestampFromPtr", p, [t |-> TimestampFromPtr(p), err |-> "nil"])

DoSetValid(v) ==
    fam = "null" /\ Mutate("SetValid", v, [t |-> SetValid(t, v), err |-> "nil"])

DoUnmarshalJSON(data) == fam = "null" /\ Mutate("UnmarshalJSON", data, UnmarshalJSON(t, data))

DoUnmarshalText(text) == fam = "null" /\ Mutate("UnmarshalText", text, UnmarshalText(t, text))

DoScan(value) == fam = "null" /\ Mutate("Scan", value, Scan(t, value))

DoMarshalJSON == fam = "null" /\ Query("MarshalJSON", "-", MarshalJSON(t))

DoMarshalText == fam = "null" /\ Query("MarshalText", "-", MarshalText(t))

DoValue == fam = "null" /\ Query("Value", "-", Value(t))

DoValueOrZero == fam = "null" /\ Query("ValueOrZero", "-", ValueOrZero(t))

DoIsZero == fam = "null" /\ Query("IsZero", "-", IsZero(t))

DoPtr == fam = "null" /\ Query("Ptr", "-", Ptr(t))

DoEqual(other) == fam = "null" /\ Query("Equal", other, Equal(t, other))

DoExactEqual(other) == fam = "null" /\ Query("ExactEqual", other, ExactEqual(t, other))

\* MarshalJSON of t, decoded into a fresh Timestamp
RoundTripJSON(ts) == UnmarshalJSON(Fresh, MarshalJSON(ts))

\* MarshalText of t, decoded into a fresh Timestamp
RoundTripText(ts) == UnmarshalText(Fresh, MarshalText(ts))

DoRoundTripJSON ==
    /\ fam = "null"
    /\ res' = R("RoundTripJSON", t, MarshalJSON(t), RoundTripJSON(t).err, RoundTripJSON(t).t)
    /\ UNCHANGED <<fam, t>>

DoRoundTripText ==
    /\ fam = "null"
    /\ res' = R("RoundTripText", t, MarshalText(t), RoundTripText(t).err, RoundTripText(t).t)
    /\ UNCHANGED <<fam, t>>

\* package zero
DoZeroTimestampFrom(tm) ==
    fam = "zero" /\ Mutate("TimestampFrom", tm, [t |-> ZeroTimestampFrom(tm), err |-> "nil"])

DoZeroTimestampFromPtr(p) ==
    fam = "zero" /\ Mutate("TimestampFromPtr", p, [t |-> ZeroTimestampFromPtr(p), err |-> "nil"])

DoZeroSetValid(v) ==
    fam = "zero" /\ Mutate("SetValid", v, [t |-> ZeroSetValid(t, v), err |-> "nil"])

DoZeroUnmarshalJSON(data) ==
    fam = "zero" /\ Mutate("UnmarshalJSON", data, ZeroUnmarshalJSON(t, data))

DoZeroUnmarshalText(text) ==
    fam = "zero" /\ Mutate("UnmarshalText", text, ZeroUnmarshalText(t, text))

DoZeroScan(value) == fam = "zero" /\ Mutate("Scan", value, ZeroScan(t, value))

DoZeroMarshalJSON == fam = "zero" /\ Query("MarshalJSON", "-", ZeroMarshalJSON(t))

DoZeroMarshalText == fam = "zero" /\ Query("MarshalText", "-", ZeroMarshalText(t))

DoZeroValue == fam = "zero" /\ Query("Value", "-", ZeroValue(t))

DoZeroValueOrZero == fam = "zero" /\ Query("ValueOrZero", "-", ZeroValueOrZero(t))

DoZeroIsZero == fam = "zero" /\ Query("IsZero", "-", ZeroIsZero(t))

DoZeroPtr == fam = "zero" /\ Query("Ptr", "-", ZeroPtr(t))

DoZeroEqual(other) == fam = "zero" /\ Query("Equal", other, ZeroEqual(t, other))

DoZeroExactEqual(other) ==
    fam = "zero" /\ Query("ExactEqual", other, ZeroExactEqual(t, other))

ZeroRoundTripJSON(ts) == ZeroUnmarshalJSON(Fresh, ZeroMarshalJSON(ts))

ZeroRoundTripText(ts) == ZeroUnmarshalText(Fresh, ZeroMarshalText(ts))

DoZeroRoundTripJSON ==
    /\ fam = "zero"
    /\ res' = R("RoundTripJSON", t, ZeroMarshalJSON(t),
                ZeroRoundTripJSON(t).err, ZeroRoundTripJSON(t).t)
    /\ UNCHANGED <<fam, t>>

DoZeroRoundTripText ==
    /\ fam = "zero"
    /\ res' = R("RoundTripText", t, ZeroMarshalText(t),
                ZeroRoundTripText(t).err, ZeroRoundTripText(t).t)
    /\ UNCHANGED <<fam, t>>

Next ==
    \/ \E tm \in Times : DoTimestampFrom(tm)
    \/ \E p \in PtrInputs : DoTimestampFromPtr(p)
    \/ \E v \in Times : DoSetValid(v)
    \/ \E data \in JSONInputs : DoUnmarshalJSON(data)
    \/ \E text \in TextInputs : DoUnmarshalText(text)
    \/ \E value \in ScanInputs : DoScan(value)
    \/ DoMarshalJSON
    \/ DoMarshalText
    \/ DoValue
    \/ DoValueOrZero
    \/ DoIsZero
    \/ DoPtr
    \/ \E other \in Others : DoEqual(other)
    \/ \E other \in Others : DoExactEqual(other)
    \/ DoRoundTripJSON
    \/ DoRoundTripText
    \/ \E tm \in Times : DoZeroTimestampFrom(tm)
    \/ \E p \in PtrInputs : DoZeroTimestampFromPtr(p)
    \/ \E v \in Times : DoZeroSetValid(v)
    \/ \E data \in JSONInputs : DoZeroUnmarshalJSON(data)
    \/ \E text \in TextInputs : DoZeroUnmarshalText(text)
    \/ \E value \in ScanInputs : DoZeroScan(value)
    \/ DoZeroMarshalJSON
    \/ DoZeroMarshalText
    \/ DoZeroValue
    \/ DoZeroValueOrZero
    \/ DoZeroIsZero
    \/ DoZeroPtr
    \/ \E other \in Others : DoZeroEqual(other)
    \/ \E other \in Others : DoZeroExactEqual(other)
    \/ DoZeroRoundTripJSON
    \/ DoZeroRoundTripText
    \/ \E v \in PtrWrites : WriteThrough(v)

Spec == Init /\ [][Next]_vars

-----------------------------------------------------------------------------
(* Properties                                                              *)

Decoded == res.op \in {"UnmarshalJSON", "UnmarshalText"}

\* tm is a whole number of milliseconds from the epoch
WholeMillis(tm) == NatDivSmall(tm.ns.mag, NanosPerMilli).r = 0

\* C1 as stated: in package null, whenever UnmarshalJSON or UnmarshalText
\* returns an error the wrapper is invalid afterwards, whatever it was before.
C1_ErrorLeavesInvalid ==
    (fam = "null" /\ Decoded /\ res.err # "nil") => ~t.Valid

\* C1: in package null, whenever UnmarshalJSON or UnmarshalText returns an
\* error, Valid is what it was before the call: a wrapper that was invalid is
\* still invalid and holds the Time it held before, a valid wrapper stays valid.
C1_ErrorKeepsInvalid ==
    (fam = "null" /\ Decoded /\ res.err # "nil")
        => (/\ t.Valid = res.pre.Valid
            /\ ~res.pre.Valid => (~t.Valid /\ t.Time = res.pre.Time))

C1_Witness ==
    fam = "null" /\ Decoded /\ res.err # "nil" /\ ~res.pre.Valid /\ ~t.Valid

\* C2: in both packages, UnmarshalText of empty input or of the text "null"
\* returns no error and leaves the wrapper invalid, whatever it was before.
C2_EmptyTextInvalidates ==
    (res.op = "UnmarshalText" /\ res.arg \in {<<>>, nullBytes})
        => (res.err = "nil" /\ ~t.Valid)

\* C3 as stated: in package null, in every state reached by TimestampFrom,
\* TimestampFromPtr, SetValid, UnmarshalJSON, UnmarshalText and Scan, an invalid
\* wrapper holds the zero time.
C3_InvalidIsZeroTime ==
    (fam = "null" /\ ~t.Valid) => TimeIsZero(t.Time)

\* C3: in package null, after each call of TimestampFrom, TimestampFromPtr,
\* SetValid, UnmarshalJSON, UnmarshalText and Scan: UnmarshalJSON of the null
\* token returns no error, gives Valid=false and leaves Time as it was, so the
\* wrapper holds the zero time exactly when the receiver held it;
\* TimestampFromPtr(nil) and Scan(nil) give Valid=false with the zero time;
\* TimestampFrom, SetValid, TimestampFromPtr of a reference and Scan of anything
\* but nil give Valid=true; every other call that leaves the wrapper invalid
\* leaves both Valid and Time as they were.
C3_InvalidZeroOrKept ==
    (fam = "null")
        => /\ (res.op = "UnmarshalJSON" /\ res.arg = nullBytes)
                 => (/\ res.err = "nil"
                     /\ ~t.Valid
                     /\ t.Time = res.pre.Time
                     /\ TimeIsZero(t.Time) <=> TimeIsZero(res.pre.Time))
           /\ (res.op = "TimestampFromPtr" /\ res.arg.isNil)
                 => (~t.Valid /\ t.Time = ZeroTimeValue)
           /\ (res.op = "Scan" /\ res.arg.kind = "nil")
                 => (res.err = "nil" /\ ~t.Valid /\ t.Time = ZeroTimeValue)
           /\ (res.op = "TimestampFromPtr" /\ ~res.arg.isNil)
                 => (t.Valid /\ t.Time = res.arg.pointee)
           /\ (res.op = "Scan" /\ res.arg.kind # "nil") => t.Valid
           /\ (res.op \in {"TimestampFrom", "SetValid"})
                 => (t.Valid /\ t.Time = res.arg)
           /\ (Decoded /\ res.arg # nullBytes /\ ~t.Valid) => t = res.pre
           /\ (res.op = "UnmarshalText" /\ ~t.Valid) => t = res.pre

C3_Witness ==
    /\ fam = "null"
    /\ res.op = "UnmarshalJSON"
    /\ res.arg = nullBytes
    /\ res.pre.Valid
    /\ ~t.Valid
    /\ ~TimeIsZero(t.Time)

\* C4: in package null, for every valid wrapper whose time is a whole number
\* of milliseconds from the epoch, decoding its MarshalJSON (MarshalText) output
\* into a fresh wrapper gives no error and a valid wrapper Equal to it.
C4_RoundTrip ==
    (/\ fam = "null"
     /\ res.op \in {"RoundTripJSON", "RoundTripText"}
     /\ res.pre.Valid
     /\ WholeMillis(res.pre.Time))
        => (res.err = "nil" /\ res.out.Valid /\ Equal(res.out, res.pre))

\* C5 as stated: in package zero, UnmarshalJSON of the literal 0 gives what
\* UnmarshalJSON of null gives: an invalid wrapper holding the zero time.
C5_ZeroLiteralIsNull ==
    (fam = "zero" /\ res.op = "UnmarshalJSON" /\ res.arg = <<"0">>)
        => (/\ t = ZeroUnmarshalJSON(res.pre, nullBytes).t
            /\ ~t.Valid
            /\ TimeIsZero(t.Time))

\* C5: in package zero, UnmarshalJSON of the literal 0 returns no error and
\* gives a valid wrapper holding the Unix epoch, which is not the zero time;
\* UnmarshalJSON of null gives an invalid wrapper and leaves Time as it was.
C5_ZeroLiteralIsEpoch ==
    /\ (fam = "zero" /\ res.op = "UnmarshalJSON" /\ res.arg = <<"0">>)
          => (/\ res.err = "nil"
              /\ t.Valid
              /\ t.Time = EpochUTC
              /\ ~TimeIsZero(t.Time))
    /\ (fam = "zero" /\ res.op = "UnmarshalJSON" /\ res.arg = nullBytes)
          => (res.err = "nil" /\ ~t.Valid /\ t.Time = res.pre.Time)

C5_Witness ==
    fam = "zero" /\ res.op = "UnmarshalJSON" /\ res.arg = <<"0">> /\ t.Valid

\* C6: in package zero, a valid wrapper holding the zero time encodes as an
\* invalid wrapper does: MarshalJSON gives 0, MarshalText gives 0, Value nil.
C6_ValidZeroEncodesAsInvalid ==
    (fam = "zero" /\ res.pre.Valid /\ TimeIsZero(res.pre.Time))
        => (/\ res.op = "MarshalJSON" => res.out = <<"0">>
            /\ res.op = "MarshalText" => res.out = <<"0">>
            /\ res.op = "Value" => res.out = NilValue)

\* C7: in package null, Equal is true exactly when both wrappers are invalid,
\* whatever times they hold, or both are valid and denote the same instant.
C7_NullEqual ==
    (fam = "null" /\ res.op = "Equal")
        => (res.out <=> \/ (~res.pre.Valid /\ ~res.arg.Valid)
                        \/ (/\ res.pre.Valid
                            /\ res.arg.Valid
                            /\ res.pre.Time.ns = res.arg.Time.ns))

C7_Witness ==
    /\ fam = "null"
    /\ res.op = "Equal"
    /\ ~res.pre.Valid
    /\ ~res.arg.Valid
    /\ res.pre.Time.ns # res.arg.Time.ns
    /\ res.out

\* C8: in package zero, Equal is true exactly when the two ValueOrZero results
\* denote the same instant: an invalid wrapper holding any time is Equal to a
\* valid wrapper holding the zero time and not Equal to a valid wrapper holding
\* another time.
C8_ZeroEqual ==
    (fam = "zero" /\ res.op = "Equal")
        => LET a == IF res.pre.Valid THEN res.pre.Time.ns ELSE ZeroTimeValue.ns
               b == IF res.arg.Valid THEN res.arg.Time.ns ELSE ZeroTimeValue.ns
           IN  /\ res.out <=> a = b
               /\ (~res.pre.Valid /\ res.arg.Valid)
                     => (res.out <=> TimeIsZero(res.arg.Time))

C8_Witness ==
    /\ fam = "zero"
    /\ res.op = "Equal"
    /\ ~res.pre.Valid
    /\ ~TimeIsZero(res.pre.Time)
    /\ res.arg.Valid
    /\ TimeIsZero(res.arg.Time)
    /\ res.out

\* C9: in both packages, for two valid wrappers that denote the same instant,
\* Equal is true, and ExactEqual is true exactly when the two times also carry
\* the same location.
C9_EqualVersusExact ==
    (/\ res.op \in {"Equal", "ExactEqual"}
     /\ res.pre.Valid
     /\ res.arg.Valid
     /\ res.pre.Time.ns = res.arg.Time.ns)
        => IF res.op = "Equal" THEN res.out
           ELSE (res.out <=> res.pre.Time.loc = res.arg.Time.loc)

C9_Witness ==
    /\ res.op = "ExactEqual"
    /\ res.pre.Valid
    /\ res.arg.Valid
    /\ res.pre.Time.ns = res.arg.Time.ns
    /\ res.pre.Time.loc # res.arg.Time.loc
    /\ ~res.out

\* C10: Ptr of an invalid wrapper is nil; Ptr of a valid wrapper refers to a
\* time equal to the wrapper's, and a write through that reference changes the
\* pointee and leaves the wrapper as it was.
C10_PtrOwnsCopy ==
    /\ res.op = "Ptr"
          => IF res.pre.Valid
             THEN ~res.out.isNil /\ res.out.pointee = t.Time
             ELSE res.out.isNil
    /\ res.op = "WriteThrough"
          => (t = res.pre /\ res.out.pointee = res.arg)

C10_Witness ==
    res.op = "WriteThrough" /\ t.Valid /\ res.arg # t.Time

\* C11: in package null, Scan(nil) leaves the wrapper invalid and Value is then
\* nil; Scan of a time x makes the wrapper valid and Value is then x itself;
\* Scan of a source of another type returns an error.
C11_ScanValue ==
    (fam = "null" /\ res.op = "Scan")
        => CASE res.arg.kind = "nil" ->
                  res.err = "nil" /\ ~t.Valid /\ Value(t) = NilValue
             [] res.arg.kind = "time" ->
                  res.err = "nil" /\ t.Valid /\ Value(t) = TimeValue(res.arg.v)
             [] OTHER -> res.err # "nil"

C11_Witness ==
    /\ fam = "null"
    /\ res.op = "Scan"
    /\ res.arg.kind = "time"
    /\ res.arg.v # res.pre.Time
    /\ ~WholeMillis(res.arg.v)
    /\ t.Valid

\* C12 as stated: in package zero, ExactEqual is true whenever IsZero holds of
\* both wrappers, whatever time or location they hold.
C12_ZeroExactEqualOfZeros ==
    (fam = "zero" /\ res.op = "ExactEqual" /\ ZeroIsZero(res.pre) /\ ZeroIsZero(res.arg))
        => res.out

\* C12: in package zero, ExactEqual is true whenever each wrapper is invalid,
\* whatever it holds, or valid and holding time.Time{}, the zero instant in UTC;
\* when IsZero holds of both, ExactEqual is true exactly when no valid one of
\* them carries another location.
C12_ZeroExactEqualOfCanonicalZeros ==
    (fam = "zero" /\ res.op = "ExactEqual" /\ ZeroIsZero(res.pre) /\ ZeroIsZero(res.arg))
        => LET locOf(w) == IF w.Valid THEN w.Time.loc ELSE "UTC"
           IN  /\ (locOf(res.pre) = "UTC" /\ locOf(res.arg) = "UTC") => res.out
               /\ res.out <=> locOf(res.pre) = locOf(res.arg)

C12_Witness ==
    /\ fam = "zero"
    /\ res.op = "ExactEqual"
    /\ ~res.pre.Valid
    /\ ~TimeIsZero(res.pre.Time)
    /\ res.arg.Valid
    /\ res.arg.Time = ZeroTimeValue
    /\ res.out

\* C13: in both packages, a call of UnmarshalJSON or UnmarshalText that returns
\* an error leaves Time and Valid of the receiver as they were before the call.
C13_ErrorLeavesReceiver ==
    (Decoded /\ res.err # "nil") => (t.Time = res.pre.Time /\ t.Valid = res.pre.Valid)

C13_Witness ==
    /\ Decoded
    /\ res.err # "nil"
    /\ res.pre.Valid
    /\ ~TimeIsZero(res.pre.Time)
    /\ t = res.pre

\* C14: in both packages, for every valid wrapper MarshalJSON and MarshalText
\* give the same decimal millisecond count, also for instants before the epoch
\* and instants with a sub-millisecond part.
C14_JSONAndTextAgree ==
    (res.op = "MarshalJSON" /\ res.pre.Valid)
        => res.out = (IF fam = "null" THEN MarshalText(res.pre)
                      ELSE ZeroMarshalText(res.pre))

\* C15: in package null, for every integer literal m that UnmarshalJSON or
\* UnmarshalText accepts without error, the wrapper is valid and denotes m
\* milliseconds from the epoch: MarshalText of it gives back m, the literal
\* without the white space around it.
C15_AcceptedLiteralIsExact ==
    (fam = "null" /\ Decoded /\ res.err = "nil" /\ JSONKind(res.arg) = "integer")
        => (t.Valid /\ MarshalText(t) = JSONTrim(res.arg))

\* C16: in package zero, for every wrapper, valid or invalid, decoding its
\* MarshalJSON (MarshalText) output into a fresh wrapper gives no error and a
\* wrapper Equal to it; an invalid wrapper encodes to 0 and decodes to a wrapper
\* of which IsZero holds.
C16_ZeroRoundTrip ==
    (fam = "zero" /\ res.op \in {"RoundTripJSON", "RoundTripText"})
        => (/\ res.err = "nil"
            /\ ZeroEqual(res.out, res.pre)
            /\ ~res.pre.Valid => (res.arg = <<"0">> /\ ZeroIsZero(res.out)))

====
